---- MODULE Spec2Model ----
(***************************************************************************)
(* Model of the RIFF INFO adapter (src/components/tags/riff_tag.rs) and of *)
(* the MP4 adapter (src/components/tags/mp4_tag.rs) of lofty-rs.           *)
(*                                                                         *)
(* Text is a sequence of one-character strings, so that decimal formatting *)
(* (u32::to_string) and parsing (str::parse::<u32>) are computed digit by  *)
(* digit.  Option<T> is a sequence of length 0 (None) or 1 (Some).         *)
(***************************************************************************)
EXTENDS Integers, Sequences, FiniteSets, TLC

\* ---------------------------------------------------------------- bounds
\* number of INFO chunks in the file an adapter is read from
MaxChunks == 2
\* number of entries the RIFF store holds at most
MaxEntries == 3
\* number of atoms an MP4 tag holds at most
MaxAtoms == 2
\* number of artists (album artists) an MP4 tag holds at most
MaxArtists == 1

\* ------------------------------------------------------- program constants
\* 2^16: the range of u16 (the `as u16` casts of the MP4 numeric setters) and
\* the radix of the two halves a u32 is kept in
U16Mod == 65536

\* ------------------------------------------------------------ Option, text
None == <<>>
Some(v) == <<v>>
IsSome(o) == Len(o) = 1

\* Option::or_else
or_else(o, alt) == IF IsSome(o) THEN o ELSE alt

DigitChars == <<"0", "1", "2", "3", "4", "5", "6", "7", "8", "9">>
\* char::to_digit(10) on the decimal digits
DigitOf == [c \in {DigitChars[i] : i \in 1..10} |-> (CHOOSE i \in 1..10 : DigitChars[i] = c) - 1]
IsDigit(c) == c \in DOMAIN DigitOf

\* A u32 is kept as its two 16-bit halves, value hi * 2^16 + lo, so that its
\* whole range, u32::MAX included, is computed exactly.
u32(hi, lo) == [hi |-> hi, lo |-> lo]
U32Max == u32(U16Mod - 1, U16Mod - 1)
U32Div10(n) == u32(n.hi \div 10, ((n.hi % 10) * U16Mod + n.lo) \div 10)
U32Mod10(n) == ((n.hi % 10) * U16Mod + n.lo) % 10

\* u32::checked_mul(10) and u32::checked_add(digit): None on overflow
checked_mul10(n) ==
    LET l == n.lo * 10
        h == n.hi * 10 + (l \div U16Mod)
    IN  IF h >= U16Mod THEN None ELSE Some(u32(h, l % U16Mod))
checked_add(n, x) ==
    LET l == n.lo + x
        h == n.hi + (l \div U16Mod)
    IN  IF h >= U16Mod THEN None ELSE Some(u32(h, l % U16Mod))

\* u32::to_string: decimal digits, most significant first, no sign, no padding
RECURSIVE to_string(_)
to_string(n) ==
    IF n.hi = 0 /\ n.lo < 10 THEN <<DigitChars[n.lo + 1]>>
    ELSE Append(to_string(U32Div10(n)), DigitChars[U32Mod10(n) + 1])

Ok(v) == [ok |-> TRUE, val |-> v]
Err == [ok |-> FALSE, val |-> u32(0, 0)]

\* the digit loop of u32::from_str: checked_mul(10) then checked_add(digit)
\* over the characters s[i..]
RECURSIVE parse_digits(_, _, _)
parse_digits(s, i, acc) ==
    IF i > Len(s) THEN Ok(acc)
    ELSE IF ~IsDigit(s[i]) THEN Err
    ELSE LET mul == checked_mul10(acc)
         IN  IF mul = None THEN Err
             ELSE LET sum == checked_add(mul[1], DigitOf[s[i]])
                  IN  IF sum = None THEN Err
                      ELSE parse_digits(s, i + 1, sum[1])

\* str::parse::<u32>: empty text and a lone sign are errors, one leading "+"
\* is accepted, "-" is not a digit of an unsigned type
parse_u32(s) ==
    IF s = <<>> THEN Err
    ELSE IF Len(s) = 1 /\ s[1] \in {"+", "-"} THEN Err
    ELSE IF s[1] = "+" THEN parse_digits(s, 2, u32(0, 0))
    ELSE parse_digits(s, 1, u32(0, 0))

\* ------------------------------------------------------------- RIFF store
RiffKeys ==
    {"INAM", "IART", "ICRD", "ICOP", "IGNR", "IPRD", "ALBU",
     "ITRK", "IPRT", "TRAC", "IFRM", "DISC"}

\* HashMap::get_key_value(key).map(|(_, v)| v)
RiffTag_get_value(d, key) == IF key \in DOMAIN d THEN Some(d[key]) ELSE None

\* HashMap::insert(key, val)
RiffTag_set_value(d, key, val) ==
    [k \in DOMAIN d \cup {key} |-> IF k = key THEN val ELSE d[k]]

\* HashMap::remove(key)
RiffTag_remove_key(d, key) == [k \in DOMAIN d \ {key} |-> d[k]]

\* ------------------------------------------- impl AudioTagEdit for RiffTag
\* numeric read shared by the getters: Some(n) only for Some(Ok(n))
some_ok(o) ==
    IF o = None THEN None
    ELSE LET r == parse_u32(o[1])
         IN  IF r.ok THEN Some(r.val) ELSE None

RiffTag_title(d) == RiffTag_get_value(d, "INAM")
RiffTag_set_title(d, title) == RiffTag_set_value(d, "INAM", title)
RiffTag_remove_title(d) == RiffTag_remove_key(d, "INAM")

RiffTag_artist_str(d) == RiffTag_get_value(d, "IART")
RiffTag_set_artist(d, artist) == RiffTag_set_value(d, "IART", artist)
RiffTag_remove_artist(d) == RiffTag_remove_key(d, "IART")

RiffTag_date(d) == RiffTag_get_value(d, "ICRD")
RiffTag_set_date(d, date) == RiffTag_set_value(d, "ICRD", date)
RiffTag_remove_date(d) == RiffTag_remove_key(d, "ICRD")

RiffTag_copyright(d) == RiffTag_get_value(d, "ICOP")
RiffTag_set_copyright(d, copyright) == RiffTag_set_value(d, "ICOP", copyright)
RiffTag_remove_copyright(d) == RiffTag_remove_key(d, "ICOP")

RiffTag_genre(d) == RiffTag_get_value(d, "IGNR")
RiffTag_set_genre(d, genre) == RiffTag_set_value(d, "IGNR", genre)
RiffTag_remove_genre(d) == RiffTag_remove_key(d, "IGNR")

\* seeded fault: the legacy identifier is probed first
RiffTag_album_title_legacy_first(d) ==
    or_else(RiffTag_get_value(d, "ALBU"), RiffTag_get_value(d, "IPRD"))
RiffTag_album_title(d) ==
    or_else(RiffTag_get_value(d, "IPRD"), RiffTag_get_value(d, "ALBU"))
\* seeded fault: the setter also clears the legacy candidate
RiffTag_set_album_title_exclusive(d, title) ==
    RiffTag_remove_key(RiffTag_set_value(d, "IPRD", title), "ALBU")
RiffTag_set_album_title(d, title) == RiffTag_set_value(d, "IPRD", title)
\* seeded fault: the legacy identifier is removed instead of the canonical one
RiffTag_remove_album_title_legacy(d) == RiffTag_remove_key(d, "ALBU")
RiffTag_remove_album_title(d) == RiffTag_remove_key(d, "IPRD")

\* seeded fault: each candidate is parsed in turn and the first that parses wins
RiffTag_track_number_first_parseable(d) ==
    or_else(or_else(some_ok(RiffTag_get_value(d, "ITRK")),
                    some_ok(RiffTag_get_value(d, "IPRT"))),
            some_ok(RiffTag_get_value(d, "TRAC")))
RiffTag_track_number(d) ==
    some_ok(or_else(or_else(RiffTag_get_value(d, "ITRK"),
                            RiffTag_get_value(d, "IPRT")),
                    RiffTag_get_value(d, "TRAC")))
\* seeded fault: the number is written under a legacy identifier
RiffTag_set_track_number_legacy(d, track_number) ==
    RiffTag_set_value(d, "TRAC", to_string(track_number))
RiffTag_set_track_number(d, track_number) ==
    RiffTag_set_value(d, "ITRK", to_string(track_number))
RiffTag_remove_track_number(d) == RiffTag_remove_key(d, "ITRK")

RiffTag_total_tracks(d) == some_ok(RiffTag_get_value(d, "IFRM"))
RiffTag_set_total_tracks(d, total_track) ==
    RiffTag_set_value(d, "IFRM", to_string(total_track))
RiffTag_remove_total_tracks(d) == RiffTag_remove_key(d, "IFRM")

RiffTag_disc_number(d) == some_ok(RiffTag_get_value(d, "DISC"))
RiffTag_set_disc_number(d, disc_number) ==
    RiffTag_set_value(d, "DISC", to_string(disc_number))
RiffTag_remove_disc_number(d) == RiffTag_remove_key(d, "DISC")

RiffTag_total_discs(d) == RiffTag_disc_number(d)
\* seeded fault: the number is written under the identifier of total_tracks
RiffTag_set_total_discs_as_tracks(d, total_discs) ==
    RiffTag_set_total_tracks(d, total_discs)
RiffTag_set_total_discs(d, total_discs) == RiffTag_set_disc_number(d, total_discs)
RiffTag_remove_total_discs(d) == RiffTag_remove_disc_number(d)

\* impl AudioTagWrite: the store handed to riff::write_to is a clone of data
RiffTag_write_to(d) == d

\* RiffInnerTag::default
RiffInnerTag_default == [k \in {} |-> <<>>]

\* riff::read_from: one HashMap insert per INFO chunk, in file order
RECURSIVE riff_read_from(_)
riff_read_from(chunks) ==
    IF chunks = <<>> THEN RiffInnerTag_default
    ELSE LET c == chunks[Len(chunks)]
         IN  RiffTag_set_value(riff_read_from(SubSeq(chunks, 1, Len(chunks) - 1)),
                               c.id, c.text)

\* ------------------------------------------------------ i32 decimal text
\* i32::MAX, the range of the year (fn year -> Option<i32>, fn set_year(i32))
I32Max == 2147483647

\* i32::to_string: "-" and the digits of the magnitude for a negative number
RECURSIVE i32_digits(_)
i32_digits(n) ==
    LET r == n % 10
        digit == IF n < 0 THEN (10 - r) % 10 ELSE r
        quot == IF n < 0 /\ r /= 0 THEN (n \div 10) + 1 ELSE n \div 10
    IN  IF quot = 0 THEN <<DigitChars[digit + 1]>>
        ELSE Append(i32_digits(quot), DigitChars[digit + 1])
i32_to_string(n) == IF n < 0 THEN <<"-">> \o i32_digits(n) ELSE i32_digits(n)

\* the digit loop of i32::from_str: checked_mul(10), then checked_add(digit)
\* for a positive and checked_sub(digit) for a negative number
RECURSIVE parse_i32_digits(_, _, _, _)
parse_i32_digits(s, i, acc, positive) ==
    IF i > Len(s) THEN Ok(acc)
    ELSE IF ~IsDigit(s[i]) THEN Err
    ELSE IF acc > I32Max \div 10 \/ acc < -(I32Max \div 10) THEN Err
    ELSE IF positive /\ acc * 10 > I32Max - DigitOf[s[i]] THEN Err
    ELSE IF ~positive /\ acc * 10 < -I32Max - 1 + DigitOf[s[i]] THEN Err
    ELSE parse_i32_digits(s, i + 1,
                          IF positive THEN acc * 10 + DigitOf[s[i]]
                          ELSE acc * 10 - DigitOf[s[i]],
                          positive)

\* str::parse::<i32>: one leading "+" or "-" is accepted
parse_i32(s) ==
    IF s = <<>> THEN Err
    ELSE IF Len(s) = 1 /\ s[1] \in {"+", "-"} THEN Err
    ELSE IF s[1] = "+" THEN parse_i32_digits(s, 2, 0, TRUE)
    ELSE IF s[1] = "-" THEN parse_i32_digits(s, 2, 0, FALSE)
    ELSE parse_i32_digits(s, 1, 0, TRUE)

\* ------------------------------------------- mp4ameta::Tag (Mp4InnerTag)
\* The inner tag as the adapter uses it: one optional string per single-valued
\* atom, the strings of the multi-valued atoms in order, the artwork data in
\* order, and the u16 numbers of the trkn and disk atoms.
Mp4InnerTag_new ==
    [title |-> None, artists |-> <<>>, year |-> None, album |-> None,
     album_artists |-> <<>>, artwork |-> <<>>,
     track_number |-> None, total_tracks |-> None,
     disc_number |-> None, total_discs |-> None]

\* A number of the trkn or disk atom as the inner tag reports it.  A stored 0
\* is reported as absent when zero_absent holds and as Some(0) otherwise: the
\* two readings an mp4ameta build can have.
Mp4InnerTag_number(stored, zero_absent) ==
    IF IsSome(stored) /\ stored[1] = 0 /\ zero_absent THEN None ELSE stored

\* u32::from(u16) and `as u16`
u32_from(v) == u32(0, v)
as_u16(n) == n.lo

\* ------------------------------ impl TryFrom<&mp4ameta::Data> for Picture
Picture(mime_type, bytes) == [mime_type |-> mime_type, data |-> bytes]
Picture_try_from(inp) ==
    IF inp.kind = "Png" THEN [ok |-> TRUE, val |-> Picture("Png", inp.data)]
    ELSE IF inp.kind = "Jpeg" THEN [ok |-> TRUE, val |-> Picture("Jpeg", inp.data)]
    ELSE [ok |-> FALSE, val |-> "NotAPicture"]

\* -------------------------------------------- impl AudioTagEdit for Mp4Tag
Mp4Tag_title(t) == t.title
Mp4Tag_set_title(t, title) == [t EXCEPT !.title = Some(title)]
Mp4Tag_remove_title(t) == [t EXCEPT !.title = None]

Mp4Tag_artist(t) == IF t.artists = <<>> THEN None ELSE Some(t.artists[1])
Mp4Tag_set_artist(t, artist) == [t EXCEPT !.artists = <<artist>>]
Mp4Tag_add_artist(t, artist) == [t EXCEPT !.artists = Append(@, artist)]

\* seeded fault: the emptiness check is missing
Mp4Tag_artists_unchecked(t) == Some(t.artists)

\* the fold pushes every artist, in order; an empty Vec becomes None
Mp4Tag_artists(t) == IF t.artists = <<>> THEN None ELSE Some(t.artists)
Mp4Tag_remove_artist(t) == [t EXCEPT !.artists = <<>>]

Mp4Tag_year(t) ==
    IF t.year = None THEN None
    ELSE LET r == parse_i32(t.year[1]) IN IF r.ok THEN Some(r.val) ELSE None
Mp4Tag_set_year(t, year) == [t EXCEPT !.year = Some(i32_to_string(year))]
Mp4Tag_remove_year(t) == [t EXCEPT !.year = None]

Mp4Tag_album_title(t) == t.album
Mp4Tag_set_album_title(t, v) == [t EXCEPT !.album = Some(v)]
Mp4Tag_remove_album_title(t) == [t EXCEPT !.album = None]

\* peek().is_some() decides between Some(collect()) and None
Mp4Tag_album_artists(t) ==
    IF Len(t.album_artists) >= 1 THEN Some(t.album_artists) ELSE None
Mp4Tag_set_album_artists(t, artists) == [t EXCEPT !.album_artists = <<artists>>]
Mp4Tag_add_album_artist(t, artist) ==
    [t EXCEPT !.album_artists = Append(@, artist)]
Mp4Tag_remove_album_artists(t) == [t EXCEPT !.album_artists = <<>>]

\* the first artwork, as a Picture when it is Jpeg or Png
Mp4Tag_album_cover(t) ==
    IF t.artwork = <<>> THEN None
    ELSE IF t.artwork[1].kind = "Jpeg" THEN Some(Picture("Jpeg", t.artwork[1].data))
    ELSE IF t.artwork[1].kind = "Png" THEN Some(Picture("Png", t.artwork[1].data))
    ELSE None
Mp4Tag_remove_album_cover(t) == [t EXCEPT !.artwork = <<>>]

\* seeded fault: the match accepts Png alone
Mp4Tag_set_album_cover_png_only(t, cover) ==
    IF cover.mime_type = "Png"
    THEN [tag |-> [t EXCEPT !.artwork =
                       <<[kind |-> cover.mime_type, data |-> cover.data]>>],
          panic |-> FALSE]
    ELSE [tag |-> [t EXCEPT !.artwork = <<>>], panic |-> TRUE]

\* remove_album_cover() runs first; the match on the MIME type then either
\* yields the data add_artwork appends or panics
Mp4Tag_set_album_cover(t, cover) ==
    LET removed == Mp4Tag_remove_album_cover(t)
    IN  IF cover.mime_type \in {"Png", "Jpeg"}
        THEN [tag |-> [removed EXCEPT !.artwork =
                           Append(@, [kind |-> cover.mime_type, data |-> cover.data])],
              panic |-> FALSE]
        ELSE [tag |-> removed, panic |-> TRUE]

Mp4Tag_remove_track(t) == [t EXCEPT !.track_number = None, !.total_tracks = None]
Mp4Tag_track_number(t, zero_absent) ==
    LET n == Mp4InnerTag_number(t.track_number, zero_absent)
    IN  IF IsSome(n) THEN Some(u32_from(n[1])) ELSE None
\* seeded fault: the cast saturates instead of wrapping
Mp4Tag_set_track_number_saturating(t, track) ==
    [t EXCEPT !.track_number = Some(IF track.hi > 0 THEN U16Mod - 1 ELSE track.lo)]
Mp4Tag_set_track_number(t, track) == [t EXCEPT !.track_number = Some(as_u16(track))]
Mp4Tag_remove_track_number(t) == [t EXCEPT !.track_number = None]

Mp4Tag_total_tracks(t, zero_absent) ==
    LET n == Mp4InnerTag_number(t.total_tracks, zero_absent)
    IN  IF IsSome(n) THEN Some(u32_from(n[1])) ELSE None
Mp4Tag_set_total_tracks(t, total_track) ==
    [t EXCEPT !.total_tracks = Some(as_u16(total_track))]
Mp4Tag_remove_total_tracks(t) == [t EXCEPT !.total_tracks = None]

Mp4Tag_remove_disc(t) == [t EXCEPT !.disc_number = None, !.total_discs = None]
Mp4Tag_disc_number(t, zero_absent) ==
    LET n == Mp4InnerTag_number(t.disc_number, zero_absent)
    IN  IF IsSome(n) THEN Some(u32_from(n[1])) ELSE None
Mp4Tag_set_disc_number(t, disc_number) ==
    [t EXCEPT !.disc_number = Some(as_u16(disc_number))]
Mp4Tag_remove_disc_number(t) == [t EXCEPT !.disc_number = None]

Mp4Tag_total_discs(t, zero_absent) ==
    LET n == Mp4InnerTag_number(t.total_discs, zero_absent)
    IN  IF IsSome(n) THEN Some(u32_from(n[1])) ELSE None
Mp4Tag_set_total_discs(t, total_discs) ==
    [t EXCEPT !.total_discs = Some(as_u16(total_discs))]
Mp4Tag_remove_total_discs(t) == [t EXCEPT !.total_discs = None]

\* --------------------------------------- impl From<&Mp4Tag> for AnyTag
AnyTag_from_Mp4Tag(inp, zero_absent) ==
    [title |-> Mp4Tag_title(inp),
     artists |-> Mp4Tag_artists(inp),
     year |-> Mp4Tag_year(inp),
     album |-> [title |-> Mp4Tag_album_title(inp),
                artists |-> Mp4Tag_album_artists(inp),
                cover |-> Mp4Tag_album_cover(inp)],
     track_number |-> Mp4Tag_track_number(inp, zero_absent),
     total_tracks |-> Mp4Tag_total_tracks(inp, zero_absent),
     disc_number |-> Mp4Tag_disc_number(inp, zero_absent),
     total_discs |-> Mp4Tag_total_discs(inp, zero_absent),
     comments |-> None, date |-> None, duration_ms |-> None]

\* i.iter().for_each(|&a| tag.add_artist(a))
RECURSIVE add_each_artist(_, _)
add_each_artist(t, names) ==
    IF names = <<>> THEN t
    ELSE add_each_artist(Mp4Tag_add_artist(t, Head(names)), Tail(names))
RECURSIVE add_each_album_artist(_, _)
add_each_album_artist(t, names) ==
    IF names = <<>> THEN t
    ELSE add_each_album_artist(Mp4Tag_add_album_artist(t, Head(names)), Tail(names))

\* ----------------------------------------- impl From<AnyTag> for Mp4Tag
\* each Some-valued field is applied, in this order, to a new tag; the album
\* cover is not among them
Mp4Tag_from_AnyTag(inp) ==
    LET t0 == Mp4InnerTag_new
        t1 == IF IsSome(inp.title) THEN Mp4Tag_set_title(t0, inp.title[1]) ELSE t0
        t2 == IF IsSome(inp.artists) THEN add_each_artist(t1, inp.artists[1]) ELSE t1
        t3 == IF IsSome(inp.year) THEN Mp4Tag_set_year(t2, inp.year[1]) ELSE t2
        t4 == IF IsSome(inp.album.title)
              THEN Mp4Tag_set_album_title(t3, inp.album.title[1]) ELSE t3
        t5 == IF IsSome(inp.album.artists)
              THEN add_each_album_artist(t4, inp.album.artists[1]) ELSE t4
        t6 == IF IsSome(inp.track_number)
              THEN Mp4Tag_set_track_number(t5, inp.track_number[1]) ELSE t5
        t7 == IF IsSome(inp.total_tracks)
              THEN Mp4Tag_set_total_tracks(t6, inp.total_tracks[1]) ELSE t6
        t8 == IF IsSome(inp.disc_number)
              THEN Mp4Tag_set_disc_number(t7, inp.disc_number[1]) ELSE t7
        t9 == IF IsSome(inp.total_discs)
              THEN Mp4Tag_set_total_discs(t8, inp.total_discs[1]) ELSE t8
    IN  t9

\* ------------------------------------------------------------ RIFF: state
\* inputs of the text setters
TextInputs == {<<"a">>}
\* inputs of the numeric setters (u32): 7 and 65536
U32Inputs == {u32(0, 7), u32(1, 0)}
\* payloads of the chunks of a file: one text for the identifiers no getter
\* compares or parses, two (unparseable and parseable as a number) for those
\* read with a fallback or as a number
ChunkTexts(id) ==
    IF id \in {"INAM", "IART", "ICRD", "ICOP", "IGNR"} THEN {<<"a">>}
    ELSE {<<"a">>, <<"7">>}

VARIABLES
    data,        \* RiffTag: inner.data, the HashMap of the INFO chunks
    mp4,         \* Mp4Tag: the inner mp4ameta tag
    panicked,    \* a panic has aborted the process
    zeroAbsent,  \* the linked mp4ameta reports a stored 0 of trkn/disk as absent
    last,        \* the last call: its name, argument and return value
    trackSet,    \* argument of the last set_track_number not yet removed
    totalSet     \* argument of the last set_total_tracks not yet removed

vars == <<data, mp4, panicked, zeroAbsent, last, trackSet, totalSet>>
riffVars == <<data, trackSet, totalSet>>
mp4Vars == <<mp4, panicked, zeroAbsent>>

Call(op, arg, ret) == [op |-> op, arg |-> arg, ret |-> ret]

\* RiffTag::read_from over a file of at most MaxChunks INFO chunks (none: the
\* store of RiffInnerTag::default)
ChunkSeqs ==
    LET Chunks == UNION {[id : {k}, text : ChunkTexts(k)] : k \in RiffKeys}
    IN  UNION {[1..n -> Chunks] : n \in 0..MaxChunks}

Init ==
    /\ \E chunks \in ChunkSeqs : data = riff_read_from(chunks)
    /\ last = Call("read_from", None, None)
    /\ trackSet = None
    /\ totalSet = None
    /\ mp4 = Mp4InnerTag_new
    /\ panicked = FALSE
    /\ zeroAbsent = FALSE

\* ---------------------------------------------------------- RIFF: actions
RiffTitle ==
    /\ last' = Call("title", None, RiffTag_title(data))
    /\ UNCHANGED <<data, trackSet, totalSet>>
    /\ UNCHANGED mp4Vars

RiffSetTitle ==
    \E v \in TextInputs :
        /\ data' = RiffTag_set_title(data, v)
        /\ Cardinality(DOMAIN data') <= MaxEntries
        /\ last' = Call("set_title", Some(v), None)
        /\ UNCHANGED <<trackSet, totalSet>>
        /\ UNCHANGED mp4Vars

RiffRemoveTitle ==
    /\ data' = RiffTag_remove_title(data)
    /\ last' = Call("remove_title", None, None)
    /\ UNCHANGED <<trackSet, totalSet>>
    /\ UNCHANGED mp4Vars

RiffArtistStr ==
    /\ last' = Call("artist_str", None, RiffTag_artist_str(data))
    /\ UNCHANGED <<data, trackSet, totalSet>>
    /\ UNCHANGED mp4Vars

RiffSetArtist ==
    \E v \in TextInputs :
        /\ data' = RiffTag_set_artist(data, v)
        /\ Cardinality(DOMAIN data') <= MaxEntries
        /\ last' = Call("set_artist", Some(v), None)
        /\ UNCHANGED <<trackSet, totalSet>>
        /\ UNCHANGED mp4Vars

RiffRemoveArtist ==
    /\ data' = RiffTag_remove_artist(data)
    /\ last' = Call("remove_artist", None, None)
    /\ UNCHANGED <<trackSet, totalSet>>
    /\ UNCHANGED mp4Vars

RiffDate ==
    /\ last' = Call("date", None, RiffTag_date(data))
    /\ UNCHANGED <<data, trackSet, totalSet>>
    /\ UNCHANGED mp4Vars

RiffSetDate ==
    \E v \in TextInputs :
        /\ data' = RiffTag_set_date(data, v)
        /\ Cardinality(DOMAIN data') <= MaxEntries
        /\ last' = Call("set_date", Some(v), None)
        /\ UNCHANGED <<trackSet, totalSet>>
        /\ UNCHANGED mp4Vars

RiffRemoveDate ==
    /\ data' = RiffTag_remove_date(data)
    /\ last' = Call("remove_date", None, None)
    /\ UNCHANGED <<trackSet, totalSet>>
    /\ UNCHANGED mp4Vars

RiffCopyright ==
    /\ last' = Call("copyright", None, RiffTag_copyright(data))
    /\ UNCHANGED <<data, trackSet, totalSet>>
    /\ UNCHANGED mp4Vars

RiffSetCopyright ==
    \E v \in TextInputs :
        /\ data' = RiffTag_set_copyright(data, v)
        /\ Cardinality(DOMAIN data') <= MaxEntries
        /\ last' = Call("set_copyright", Some(v), None)
        /\ UNCHANGED <<trackSet, totalSet>>
        /\ UNCHANGED mp4Vars

RiffRemoveCopyright ==
    /\ data' = RiffTag_remove_copyright(data)
    /\ last' = Call("remove_copyright", None, None)
    /\ UNCHANGED <<trackSet, totalSet>>
    /\ UNCHANGED mp4Vars

RiffGenre ==
    /\ last' = Call("genre", None, RiffTag_genre(data))
    /\ UNCHANGED <<data, trackSet, totalSet>>
    /\ UNCHANGED mp4Vars

RiffSetGenre ==
    \E v \in TextInputs :
        /\ data' = RiffTag_set_genre(data, v)
        /\ Cardinality(DOMAIN data') <= MaxEntries
        /\ last' = Call("set_genre", Some(v), None)
        /\ UNCHANGED <<trackSet, totalSet>>
        /\ UNCHANGED mp4Vars

RiffRemoveGenre ==
    /\ data' = RiffTag_remove_genre(data)
    /\ last' = Call("remove_genre", None, None)
    /\ UNCHANGED <<trackSet, totalSet>>
    /\ UNCHANGED mp4Vars

RiffAlbumTitle ==
    /\ last' = Call("album_title", None, RiffTag_album_title(data))
    /\ UNCHANGED <<data, trackSet, totalSet>>
    /\ UNCHANGED mp4Vars

RiffSetAlbumTitle ==
    \E v \in TextInputs :
        /\ data' = RiffTag_set_album_title(data, v)
        /\ Cardinality(DOMAIN data') <= MaxEntries
        /\ last' = Call("set_album_title", Some(v), None)
        /\ UNCHANGED <<trackSet, totalSet>>
        /\ UNCHANGED mp4Vars

RiffRemoveAlbumTitle ==
    /\ data' = RiffTag_remove_album_title(data)
    /\ last' = Call("remove_album_title", None, None)
    /\ UNCHANGED <<trackSet, totalSet>>
    /\ UNCHANGED mp4Vars

RiffTrackNumber ==
    /\ last' = Call("track_number", None, RiffTag_track_number(data))
    /\ UNCHANGED <<data, trackSet, totalSet>>
    /\ UNCHANGED mp4Vars

RiffSetTrackNumber ==
    \E v \in U32Inputs :
        /\ data' = RiffTag_set_track_number(data, v)
        /\ Cardinality(DOMAIN data') <= MaxEntries
        /\ last' = Call("set_track_number", Some(v), None)
        /\ trackSet' = Some(v)
        /\ UNCHANGED totalSet
        /\ UNCHANGED mp4Vars

RiffRemoveTrackNumber ==
    /\ data' = RiffTag_remove_track_number(data)
    /\ last' = Call("remove_track_number", None, None)
    /\ trackSet' = None
    /\ UNCHANGED totalSet
    /\ UNCHANGED mp4Vars

RiffTotalTracks ==
    /\ last' = Call("total_tracks", None, RiffTag_total_tracks(data))
    /\ UNCHANGED <<data, trackSet, totalSet>>
    /\ UNCHANGED mp4Vars

RiffSetTotalTracks ==
    \E v \in U32Inputs :
        /\ data' = RiffTag_set_total_tracks(data, v)
        /\ Cardinality(DOMAIN data') <= MaxEntries
        /\ last' = Call("set_total_tracks", Some(v), None)
        /\ totalSet' = Some(v)
        /\ UNCHANGED trackSet
        /\ UNCHANGED mp4Vars

RiffRemoveTotalTracks ==
    /\ data' = RiffTag_remove_total_tracks(data)
    /\ last' = Call("remove_total_tracks", None, None)
    /\ totalSet' = None
    /\ UNCHANGED trackSet
    /\ UNCHANGED mp4Vars

RiffDiscNumber ==
    /\ last' = Call("disc_number", None, RiffTag_disc_number(data))
    /\ UNCHANGED <<data, trackSet, totalSet>>
    /\ UNCHANGED mp4Vars

RiffSetDiscNumber ==
    \E v \in U32Inputs :
        /\ data' = RiffTag_set_disc_number(data, v)
        /\ Cardinality(DOMAIN data') <= MaxEntries
        /\ last' = Call("set_disc_number", Some(v), None)
        /\ UNCHANGED <<trackSet, totalSet>>
        /\ UNCHANGED mp4Vars

RiffRemoveDiscNumber ==
    /\ data' = RiffTag_remove_disc_number(data)
    /\ last' = Call("remove_disc_number", None, None)
    /\ UNCHANGED <<trackSet, totalSet>>
    /\ UNCHANGED mp4Vars

RiffTotalDiscs ==
    /\ last' = Call("total_discs", None, RiffTag_total_discs(data))
    /\ UNCHANGED <<data, trackSet, totalSet>>
    /\ UNCHANGED mp4Vars

RiffSetTotalDiscs ==
    \E v \in U32Inputs :
        /\ data' = RiffTag_set_total_discs(data, v)
        /\ Cardinality(DOMAIN data') <= MaxEntries
        /\ last' = Call("set_total_discs", Some(v), None)
        /\ UNCHANGED <<trackSet, totalSet>>
        /\ UNCHANGED mp4Vars

RiffRemoveTotalDiscs ==
    /\ data' = RiffTag_remove_total_discs(data)
    /\ last' = Call("remove_total_discs", None, None)
    /\ UNCHANGED <<trackSet, totalSet>>
    /\ UNCHANGED mp4Vars

RiffWriteTo ==
    /\ last' = Call("write_to", None, Some(RiffTag_write_to(data)))
    /\ UNCHANGED <<data, trackSet, totalSet>>
    /\ UNCHANGED mp4Vars

Next ==
    \/ RiffTitle
    \/ RiffSetTitle
    \/ RiffRemoveTitle
    \/ RiffArtistStr
    \/ RiffSetArtist
    \/ RiffRemoveArtist
    \/ RiffDate
    \/ RiffSetDate
    \/ RiffRemoveDate
    \/ RiffCopyright
    \/ RiffSetCopyright
    \/ RiffRemoveCopyright
    \/ RiffGenre
    \/ RiffSetGenre
    \/ RiffRemoveGenre
    \/ RiffAlbumTitle
    \/ RiffSetAlbumTitle
    \/ RiffRemoveAlbumTitle
    \/ RiffTrackNumber
    \/ RiffSetTrackNumber
    \/ RiffRemoveTrackNumber
    \/ RiffTotalTracks
    \/ RiffSetTotalTracks
    \/ RiffRemoveTotalTracks
    \/ RiffDiscNumber
    \/ RiffSetDiscNumber
    \/ RiffRemoveDiscNumber
    \/ RiffTotalDiscs
    \/ RiffSetTotalDiscs
    \/ RiffRemoveTotalDiscs
    \/ RiffWriteTo

Spec == Init /\ [][Next]_vars


\* ------------------------------------------------------------- MP4: state
\* inputs of the text setters, the artist names, the years, the numbers (7,
\* 65536 and 65543) and the pictures (every MimeType) the setters are given
Mp4Texts == {"t"}
Mp4Names == {"x", "y"}
YearInputs == {1999, -5}
Mp4U32Inputs == {u32(0, 7), u32(1, 0), u32(1, 7)}
CoverInputs == {Picture(m, "img") : m \in {"Png", "Jpeg", "Tiff", "Bmp", "Gif"}}

\* the model's bounds on a tag: atoms held (one per field present; trkn and
\* disk hold two numbers each) and entries of a multi-valued atom
InBounds(t) ==
    /\ LET AtomCount ==
            (IF IsSome(t.title) THEN 1 ELSE 0) + (IF t.artists /= <<>> THEN 1 ELSE 0)
            + (IF IsSome(t.year) THEN 1 ELSE 0) + (IF IsSome(t.album) THEN 1 ELSE 0)
            + (IF t.album_artists /= <<>> THEN 1 ELSE 0) + (IF t.artwork /= <<>> THEN 1 ELSE 0)
            + (IF IsSome(t.track_number) \/ IsSome(t.total_tracks) THEN 1 ELSE 0)
            + (IF IsSome(t.disc_number) \/ IsSome(t.total_discs) THEN 1 ELSE 0)
       IN  AtomCount <= MaxAtoms
    /\ Len(t.artists) <= MaxArtists
    /\ Len(t.album_artists) <= MaxArtists

\* Mp4Tag::new(), or a tag read from a file whose artwork is in an encoding
\* other than Png and Jpeg
InitMp4 ==
    /\ mp4 \in {Mp4InnerTag_new,
                [Mp4InnerTag_new EXCEPT !.artwork = <<[kind |-> "Bmp", data |-> "img"]>>]}
    /\ panicked = FALSE
    /\ zeroAbsent \in BOOLEAN
    /\ last = Call("new", None, None)
    /\ data = RiffInnerTag_default
    /\ trackSet = None
    /\ totalSet = None

\* ----------------------------------------------------------- MP4: actions
Mp4Title ==
    /\ ~panicked
    /\ last' = Call("title", None, Mp4Tag_title(mp4))
    /\ UNCHANGED <<mp4Vars, riffVars>>

Mp4Artist ==
    /\ ~panicked
    /\ last' = Call("artist", None, Mp4Tag_artist(mp4))
    /\ UNCHANGED <<mp4Vars, riffVars>>

Mp4Artists ==
    /\ ~panicked
    /\ last' = Call("artists", None, Mp4Tag_artists(mp4))
    /\ UNCHANGED <<mp4Vars, riffVars>>

Mp4Year ==
    /\ ~panicked
    /\ last' = Call("year", None, Mp4Tag_year(mp4))
    /\ UNCHANGED <<mp4Vars, riffVars>>

Mp4AlbumTitle ==
    /\ ~panicked
    /\ last' = Call("album_title", None, Mp4Tag_album_title(mp4))
    /\ UNCHANGED <<mp4Vars, riffVars>>

Mp4AlbumArtists ==
    /\ ~panicked
    /\ last' = Call("album_artists", None, Mp4Tag_album_artists(mp4))
    /\ UNCHANGED <<mp4Vars, riffVars>>

Mp4AlbumCover ==
    /\ ~panicked
    /\ last' = Call("album_cover", None, Mp4Tag_album_cover(mp4))
    /\ UNCHANGED <<mp4Vars, riffVars>>

Mp4TrackNumber ==
    /\ ~panicked
    /\ last' = Call("track_number", None, Mp4Tag_track_number(mp4, zeroAbsent))
    /\ UNCHANGED <<mp4Vars, riffVars>>

Mp4TotalTracks ==
    /\ ~panicked
    /\ last' = Call("total_tracks", None, Mp4Tag_total_tracks(mp4, zeroAbsent))
    /\ UNCHANGED <<mp4Vars, riffVars>>

Mp4DiscNumber ==
    /\ ~panicked
    /\ last' = Call("disc_number", None, Mp4Tag_disc_number(mp4, zeroAbsent))
    /\ UNCHANGED <<mp4Vars, riffVars>>

Mp4TotalDiscs ==
    /\ ~panicked
    /\ last' = Call("total_discs", None, Mp4Tag_total_discs(mp4, zeroAbsent))
    /\ UNCHANGED <<mp4Vars, riffVars>>

Mp4SetTitle ==
    \E v \in Mp4Texts :
        /\ ~panicked
        /\ mp4' = Mp4Tag_set_title(mp4, v)
        /\ InBounds(mp4')
        /\ last' = Call("set_title", Some(v), None)
        /\ UNCHANGED <<panicked, zeroAbsent, riffVars>>

Mp4SetArtist ==
    \E v \in Mp4Names :
        /\ ~panicked
        /\ mp4' = Mp4Tag_set_artist(mp4, v)
        /\ InBounds(mp4')
        /\ last' = Call("set_artist", Some(v), None)
        /\ UNCHANGED <<panicked, zeroAbsent, riffVars>>

Mp4AddArtist ==
    \E v \in Mp4Names :
        /\ ~panicked
        /\ mp4' = Mp4Tag_add_artist(mp4, v)
        /\ InBounds(mp4')
        /\ last' = Call("add_artist", Some(v), None)
        /\ UNCHANGED <<panicked, zeroAbsent, riffVars>>

Mp4SetYear ==
    \E v \in YearInputs :
        /\ ~panicked
        /\ mp4' = Mp4Tag_set_year(mp4, v)
        /\ InBounds(mp4')
        /\ last' = Call("set_year", Some(v), None)
        /\ UNCHANGED <<panicked, zeroAbsent, riffVars>>

Mp4SetAlbumTitle ==
    \E v \in Mp4Texts :
        /\ ~panicked
        /\ mp4' = Mp4Tag_set_album_title(mp4, v)
        /\ InBounds(mp4')
        /\ last' = Call("set_album_title", Some(v), None)
        /\ UNCHANGED <<panicked, zeroAbsent, riffVars>>

Mp4SetAlbumArtists ==
    \E v \in Mp4Names :
        /\ ~panicked
        /\ mp4' = Mp4Tag_set_album_artists(mp4, v)
        /\ InBounds(mp4')
        /\ last' = Call("set_album_artists", Some(v), None)
        /\ UNCHANGED <<panicked, zeroAbsent, riffVars>>

Mp4AddAlbumArtist ==
    \E v \in Mp4Names :
        /\ ~panicked
        /\ mp4' = Mp4Tag_add_album_artist(mp4, v)
        /\ InBounds(mp4')
        /\ last' = Call("add_album_artist", Some(v), None)
        /\ UNCHANGED <<panicked, zeroAbsent, riffVars>>

Mp4SetTrackNumber ==
    \E v \in Mp4U32Inputs :
        /\ ~panicked
        /\ mp4' = Mp4Tag_set_track_number(mp4, v)
        /\ InBounds(mp4')
        /\ last' = Call("set_track_number", Some(v), None)
        /\ UNCHANGED <<panicked, zeroAbsent, riffVars>>

Mp4SetTotalTracks ==
    \E v \in Mp4U32Inputs :
        /\ ~panicked
        /\ mp4' = Mp4Tag_set_total_tracks(mp4, v)
        /\ InBounds(mp4')
        /\ last' = Call("set_total_tracks", Some(v), None)
        /\ UNCHANGED <<panicked, zeroAbsent, riffVars>>

Mp4SetDiscNumber ==
    \E v \in Mp4U32Inputs :
        /\ ~panicked
        /\ mp4' = Mp4Tag_set_disc_number(mp4, v)
        /\ InBounds(mp4')
        /\ last' = Call("set_disc_number", Some(v), None)
        /\ UNCHANGED <<panicked, zeroAbsent, riffVars>>

Mp4SetTotalDiscs ==
    \E v \in Mp4U32Inputs :
        /\ ~panicked
        /\ mp4' = Mp4Tag_set_total_discs(mp4, v)
        /\ InBounds(mp4')
        /\ last' = Call("set_total_discs", Some(v), None)
        /\ UNCHANGED <<panicked, zeroAbsent, riffVars>>

Mp4SetAlbumCover ==
    \E cover \in CoverInputs :
        /\ ~panicked
        /\ mp4' = Mp4Tag_set_album_cover(mp4, cover).tag
        /\ panicked' = Mp4Tag_set_album_cover(mp4, cover).panic
        /\ InBounds(mp4')
        /\ last' = Call("set_album_cover", Some(cover), None)
        /\ UNCHANGED <<zeroAbsent, riffVars>>

Mp4RemoveTitle ==
    /\ ~panicked
    /\ mp4' = Mp4Tag_remove_title(mp4)
    /\ last' = Call("remove_title", None, None)
    /\ UNCHANGED <<panicked, zeroAbsent, riffVars>>

Mp4RemoveArtist ==
    /\ ~panicked
    /\ mp4' = Mp4Tag_remove_artist(mp4)
    /\ last' = Call("remove_artist", None, None)
    /\ UNCHANGED <<panicked, zeroAbsent, riffVars>>

Mp4RemoveYear ==
    /\ ~panicked
    /\ mp4' = Mp4Tag_remove_year(mp4)
    /\ last' = Call("remove_year", None, None)
    /\ UNCHANGED <<panicked, zeroAbsent, riffVars>>

Mp4RemoveAlbumTitle ==
    /\ ~panicked
    /\ mp4' = Mp4Tag_remove_album_title(mp4)
    /\ last' = Call("remove_album_title", None, None)
    /\ UNCHANGED <<panicked, zeroAbsent, riffVars>>

Mp4RemoveAlbumArtists ==
    /\ ~panicked
    /\ mp4' = Mp4Tag_remove_album_artists(mp4)
    /\ last' = Call("remove_album_artists", None, None)
    /\ UNCHANGED <<panicked, zeroAbsent, riffVars>>

Mp4RemoveAlbumCover ==
    /\ ~panicked
    /\ mp4' = Mp4Tag_remove_album_cover(mp4)
    /\ last' = Call("remove_album_cover", None, None)
    /\ UNCHANGED <<panicked, zeroAbsent, riffVars>>

Mp4RemoveTrack ==
    /\ ~panicked
    /\ mp4' = Mp4Tag_remove_track(mp4)
    /\ last' = Call("remove_track", None, None)
    /\ UNCHANGED <<panicked, zeroAbsent, riffVars>>

Mp4RemoveTrackNumber ==
    /\ ~panicked
    /\ mp4' = Mp4Tag_remove_track_number(mp4)
    /\ last' = Call("remove_track_number", None, None)
    /\ UNCHANGED <<panicked, zeroAbsent, riffVars>>

Mp4RemoveTotalTracks ==
    /\ ~panicked
    /\ mp4' = Mp4Tag_remove_total_tracks(mp4)
    /\ last' = Call("remove_total_tracks", None, None)
    /\ UNCHANGED <<panicked, zeroAbsent, riffVars>>

Mp4RemoveDisc ==
    /\ ~panicked
    /\ mp4' = Mp4Tag_remove_disc(mp4)
    /\ last' = Call("remove_disc", None, None)
    /\ UNCHANGED <<panicked, zeroAbsent, riffVars>>

Mp4RemoveDiscNumber ==
    /\ ~panicked
    /\ mp4' = Mp4Tag_remove_disc_number(mp4)
    /\ last' = Call("remove_disc_number", None, None)
    /\ UNCHANGED <<panicked, zeroAbsent, riffVars>>

Mp4RemoveTotalDiscs ==
    /\ ~panicked
    /\ mp4' = Mp4Tag_remove_total_discs(mp4)
    /\ last' = Call("remove_total_discs", None, None)
    /\ UNCHANGED <<panicked, zeroAbsent, riffVars>>

\* Picture::try_from(data) on the first artwork of the tag
Mp4PictureTryFrom ==
    /\ ~panicked
    /\ mp4.artwork /= <<>>
    /\ last' = Call("Picture::try_from", Some(mp4.artwork[1]),
                    Some(Picture_try_from(mp4.artwork[1])))
    /\ UNCHANGED <<mp4Vars, riffVars>>

\* AnyTag::from(&tag)
Mp4ToAnyTag ==
    /\ ~panicked
    /\ last' = Call("AnyTag::from", None, Some(AnyTag_from_Mp4Tag(mp4, zeroAbsent)))
    /\ UNCHANGED <<mp4Vars, riffVars>>

\* Mp4Tag::from(AnyTag::from(&tag)): the tag is replaced by the new adapter
\* built from its Normalized Tag, which the call record keeps
Mp4FromAnyTag ==
    /\ ~panicked
    /\ mp4' = Mp4Tag_from_AnyTag(AnyTag_from_Mp4Tag(mp4, zeroAbsent))
    /\ last' = Call("Mp4Tag::from", Some(AnyTag_from_Mp4Tag(mp4, zeroAbsent)), None)
    /\ UNCHANGED <<panicked, zeroAbsent, riffVars>>

NextMp4 ==
    \/ Mp4Title
    \/ Mp4Artist
    \/ Mp4Artists
    \/ Mp4Year
    \/ Mp4AlbumTitle
    \/ Mp4AlbumArtists
    \/ Mp4AlbumCover
    \/ Mp4TrackNumber
    \/ Mp4TotalTracks
    \/ Mp4DiscNumber
    \/ Mp4TotalDiscs
    \/ Mp4SetTitle
    \/ Mp4SetArtist
    \/ Mp4AddArtist
    \/ Mp4SetYear
    \/ Mp4SetAlbumTitle
    \/ Mp4SetAlbumArtists
    \/ Mp4AddAlbumArtist
    \/ Mp4SetTrackNumber
    \/ Mp4SetTotalTracks
    \/ Mp4SetDiscNumber
    \/ Mp4SetTotalDiscs
    \/ Mp4SetAlbumCover
    \/ Mp4RemoveTitle
    \/ Mp4RemoveArtist
    \/ Mp4RemoveYear
    \/ Mp4RemoveAlbumTitle
    \/ Mp4RemoveAlbumArtists
    \/ Mp4RemoveAlbumCover
    \/ Mp4RemoveTrack
    \/ Mp4RemoveTrackNumber
    \/ Mp4RemoveTotalTracks
    \/ Mp4RemoveDisc
    \/ Mp4RemoveDiscNumber
    \/ Mp4RemoveTotalDiscs
    \/ Mp4PictureTryFrom
    \/ Mp4ToAnyTag
    \/ Mp4FromAnyTag

SpecMp4 == InitMp4 /\ [][NextMp4]_vars

\* ------------------------------------------- read-only session (numeric text)
\* chunk payloads a numeric identifier may hold in a file: "", "+", "-1", "+7",
\* "07", "7", "a", "7a", " 7", "4294967295", "4294967296", "42949672950"
NumericTexts ==
    {<<>>, <<"+">>, <<"-", "1">>, <<"+", "7">>, <<"0", "7">>, <<"7">>, <<"a">>,
     <<"7", "a">>, <<" ", "7">>,
     to_string(U32Max),
     Append(to_string(U32Div10(U32Max)), "6"),
     Append(to_string(U32Max), "0")}

NumericChunkSeqs ==
    UNION {[1..n -> [id : {"ITRK", "IPRT", "TRAC", "IFRM", "DISC"}, text : NumericTexts]]
           : n \in 0..MaxChunks}

InitRead ==
    /\ \E chunks \in NumericChunkSeqs : data = riff_read_from(chunks)
    /\ last = Call("read_from", None, None)
    /\ trackSet = None
    /\ totalSet = None
    /\ mp4 = Mp4InnerTag_new
    /\ panicked = FALSE
    /\ zeroAbsent = FALSE
    /\ mp4 = Mp4InnerTag_new
    /\ panicked = FALSE
    /\ zeroAbsent = FALSE

NextRead ==
    \/ RiffTrackNumber
    \/ RiffTotalTracks
    \/ RiffDiscNumber
    \/ RiffTotalDiscs

SpecRead == InitRead /\ [][NextRead]_vars

\* ================================================================ claims
Has(k) == k \in DOMAIN data

\* the numeric reading of a stored text: Some(n) when it parses to n, else None
Parsed(text) ==
    LET r == parse_u32(text) IN IF r.ok THEN Some(r.val) ELSE None

\* the text track_number() reads: that of the first identifier present among
\* ITRK, IPRT, TRAC
TrackText ==
    IF Has("ITRK") THEN Some(data["ITRK"])
    ELSE IF Has("IPRT") THEN Some(data["IPRT"])
    ELSE IF Has("TRAC") THEN Some(data["TRAC"])
    ELSE None

\* C1: album_title() is the IPRD value if IPRD is present, else the ALBU value,
\* else None; track_number() reads the first present of ITRK, IPRT, TRAC; with
\* the canonical identifier present the legacy entries do not matter.
C1_FieldPrecedence ==
    /\ Has("IPRD") => RiffTag_album_title(data) = Some(data["IPRD"])
    /\ ~Has("IPRD") /\ Has("ALBU") => RiffTag_album_title(data) = Some(data["ALBU"])
    /\ ~Has("IPRD") /\ ~Has("ALBU") => RiffTag_album_title(data) = None
    /\ Has("ITRK") => RiffTag_track_number(data) = Parsed(data["ITRK"])
    /\ ~Has("ITRK") /\ Has("IPRT") => RiffTag_track_number(data) = Parsed(data["IPRT"])
    /\ ~Has("ITRK") /\ ~Has("IPRT") /\ Has("TRAC")
           => RiffTag_track_number(data) = Parsed(data["TRAC"])
    /\ ~Has("ITRK") /\ ~Has("IPRT") /\ ~Has("TRAC")
           => RiffTag_track_number(data) = None
    /\ last.op = "album_title" => last.ret = RiffTag_album_title(data)
    /\ last.op = "track_number" => last.ret = RiffTag_track_number(data)

\* album_title() was called on a store holding IPRD and a different ALBU
C1_Witness ==
    /\ last.op = "album_title"
    /\ Has("IPRD") /\ Has("ALBU") /\ data["IPRD"] /= data["ALBU"]
    /\ last.ret = Some(data["IPRD"])

\* canonical decimal text of n: digits only, no leading zero, value n
IsDecimalTextOf(text, n) ==
    /\ Len(text) >= 1
    /\ \A i \in 1..Len(text) : IsDigit(text[i])
    /\ Len(text) > 1 => text[1] /= "0"
    /\ parse_u32(text) = Ok(n)

\* C2: once set_track_number(n) and set_total_tracks(m) have been called, with
\* only operations on other fields since, track_number() is n, total_tracks()
\* is m, and the store handed to write_to holds ITRK = text of n and
\* IFRM = text of m, whatever else (legacy identifiers included) it holds.
C2_TrackThenTotal ==
    IsSome(trackSet) /\ IsSome(totalSet) =>
        /\ RiffTag_track_number(data) = trackSet
        /\ RiffTag_total_tracks(data) = totalSet
        /\ "ITRK" \in DOMAIN RiffTag_write_to(data)
        /\ IsDecimalTextOf(RiffTag_write_to(data)["ITRK"], trackSet[1])
        /\ "IFRM" \in DOMAIN RiffTag_write_to(data)
        /\ IsDecimalTextOf(RiffTag_write_to(data)["IFRM"], totalSet[1])

\* both were set, to different numbers, on a store that holds a legacy track
\* identifier, and the store was then handed to write_to
C2_Witness ==
    /\ IsSome(trackSet) /\ IsSome(totalSet) /\ trackSet /= totalSet
    /\ Has("IPRT") \/ Has("TRAC")
    /\ last.op = "write_to"

\* the getter of the field a remove operation is about, and its canonical key
RemoveOps ==
    {"remove_title", "remove_artist", "remove_date", "remove_copyright",
     "remove_genre", "remove_album_title", "remove_track_number",
     "remove_total_tracks", "remove_disc_number", "remove_total_discs"}
GetterAfter(op) ==
    CASE op = "remove_title" -> RiffTag_title(data)
      [] op = "remove_artist" -> RiffTag_artist_str(data)
      [] op = "remove_date" -> RiffTag_date(data)
      [] op = "remove_copyright" -> RiffTag_copyright(data)
      [] op = "remove_genre" -> RiffTag_genre(data)
      [] op = "remove_album_title" -> RiffTag_album_title(data)
      [] op = "remove_track_number" -> RiffTag_track_number(data)
      [] op = "remove_total_tracks" -> RiffTag_total_tracks(data)
      [] op = "remove_disc_number" -> RiffTag_disc_number(data)
      [] op = "remove_total_discs" -> RiffTag_total_discs(data)
CanonicalOfRemove(op) ==
    CASE op = "remove_title" -> "INAM"
      [] op = "remove_artist" -> "IART"
      [] op = "remove_date" -> "ICRD"
      [] op = "remove_copyright" -> "ICOP"
      [] op = "remove_genre" -> "IGNR"
      [] op = "remove_album_title" -> "IPRD"
      [] op = "remove_track_number" -> "ITRK"
      [] op = "remove_total_tracks" -> "IFRM"
      [] op = "remove_disc_number" -> "DISC"
      [] op = "remove_total_discs" -> "DISC"

\* C3 as stated: immediately after remove_<field>() the field's getter returns
\* None and the canonical identifier is absent from the store to be serialized.
C3_Original ==
    last.op \in RemoveOps =>
        /\ GetterAfter(last.op) = None
        /\ CanonicalOfRemove(last.op) \notin DOMAIN RiffTag_write_to(data)

\* C3 amended: after remove_<field>() the canonical identifier is absent; the
\* getter returns None for every field but album_title and track_number, which
\* return what the legacy identifiers (ALBU; IPRT, then TRAC) supply, and None
\* when none of them is present.
C3_RemoveCanonical ==
    last.op \in RemoveOps =>
        /\ CanonicalOfRemove(last.op) \notin DOMAIN RiffTag_write_to(data)
        /\ last.op \notin {"remove_album_title", "remove_track_number"}
               => GetterAfter(last.op) = None
        /\ last.op = "remove_album_title"
               => GetterAfter(last.op) = RiffTag_get_value(data, "ALBU")
        /\ last.op = "remove_track_number"
               => GetterAfter(last.op) =
                      IF Has("IPRT") THEN Parsed(data["IPRT"])
                      ELSE IF Has("TRAC") THEN Parsed(data["TRAC"])
                      ELSE None

\* remove_album_title() was called and album_title() still returns the ALBU value
C3_Witness ==
    /\ last.op = "remove_album_title"
    /\ Has("ALBU")
    /\ RiffTag_album_title(data) = Some(data["ALBU"])

\* what str::parse::<u32> makes of each payload of NumericTexts, as a table
C5_ParseTable ==
    /\ \A t \in {<<>>, <<"+">>, <<"-", "1">>, <<"a">>, <<"7", "a">>, <<" ", "7">>,
                  <<"4", "2", "9", "4", "9", "6", "7", "2", "9", "6">>,
                  <<"4", "2", "9", "4", "9", "6", "7", "2", "9", "5", "0">>} :
           Parsed(t) = None
    /\ \A t \in {<<"+", "7">>, <<"0", "7">>, <<"7">>} : Parsed(t) = Some(u32(0, 7))
    /\ Parsed(<<"4", "2", "9", "4", "9", "6", "7", "2", "9", "5">>) = Some(U32Max)

\* C5: a numeric getter returns None when the text it reads is absent or does
\* not parse as a u32, and Some(n) exactly when it parses to n; track_number()
\* reads the first present of ITRK, IPRT, TRAC and never a later candidate.
\* Which texts parse, and to what, is fixed by the table C5_ParseTable.
C5_NumericSoftFail ==
    /\ last.op = "track_number" =>
           last.ret = (IF IsSome(TrackText) THEN Parsed(TrackText[1]) ELSE None)
    /\ last.op = "total_tracks" =>
           last.ret = (IF Has("IFRM") THEN Parsed(data["IFRM"]) ELSE None)
    /\ last.op \in {"disc_number", "total_discs"} =>
           last.ret = (IF Has("DISC") THEN Parsed(data["DISC"]) ELSE None)
    /\ C5_ParseTable

\* track_number() returned None on an unparseable ITRK although IPRT parses
C5_Witness ==
    /\ last.op = "track_number"
    /\ Has("ITRK") /\ ~parse_u32(data["ITRK"]).ok
    /\ Has("IPRT") /\ parse_u32(data["IPRT"]).ok
    /\ last.ret = None

\* the canonical identifier each setter writes
SetterOps ==
    {"set_title", "set_artist", "set_date", "set_copyright", "set_genre",
     "set_album_title", "set_track_number", "set_total_tracks",
     "set_disc_number", "set_total_discs"}
CanonicalOfSetter(op) ==
    CASE op = "set_title" -> "INAM"
      [] op = "set_artist" -> "IART"
      [] op = "set_date" -> "ICRD"
      [] op = "set_copyright" -> "ICOP"
      [] op = "set_genre" -> "IGNR"
      [] op = "set_album_title" -> "IPRD"
      [] op = "set_track_number" -> "ITRK"
      [] op = "set_total_tracks" -> "IFRM"
      [] op = "set_disc_number" -> "DISC"
      [] op = "set_total_discs" -> "DISC"
GetterOps ==
    {"title", "artist_str", "date", "copyright", "genre", "album_title",
     "track_number", "total_tracks", "disc_number", "total_discs"}

\* every entry but the one under key k is the same in stores d and e
SameExcept(d, e, k) ==
    /\ DOMAIN d \ {k} = DOMAIN e \ {k}
    /\ \A j \in DOMAIN d \ {k} : d[j] = e[j]

\* C6: a setter changes the entry under its field's canonical identifier and
\* no other entry (legacy candidates included); getters and write_to change
\* nothing.
C6_SetterFrame ==
    [][/\ last'.op \in SetterOps =>
              /\ SameExcept(data, data', CanonicalOfSetter(last'.op))
              /\ CanonicalOfSetter(last'.op) \in DOMAIN data'
              /\ last'.op \in {"set_title", "set_artist", "set_date",
                               "set_copyright", "set_genre", "set_album_title"}
                     => data'[CanonicalOfSetter(last'.op)] = last'.arg[1]
              /\ last'.op \notin {"set_title", "set_artist", "set_date",
                                  "set_copyright", "set_genre", "set_album_title"}
                     => IsDecimalTextOf(data'[CanonicalOfSetter(last'.op)],
                                        last'.arg[1])
       /\ last'.op \in GetterOps \cup {"write_to"} => data' = data]_vars

\* set_album_title and set_track_number were called on stores that keep their
\* legacy entries
C6_Witness ==
    \/ /\ last.op = "set_album_title"
       /\ Has("ALBU") /\ data["ALBU"] /= data["IPRD"]
    \/ /\ last.op = "set_track_number"
       /\ Has("IPRT") /\ Has("TRAC")

\* C9: total_discs() equals disc_number() in every state; set_total_discs(n)
\* makes disc_number() return n; remove_disc_number() and remove_total_discs()
\* each make both return None.
C9_DiscIsTotalDiscs ==
    /\ RiffTag_total_discs(data) = RiffTag_disc_number(data)
    /\ RiffTag_disc_number(data) =
           (IF Has("DISC") THEN Parsed(data["DISC"]) ELSE None)
    /\ last.op = "set_total_discs" => RiffTag_disc_number(data) = last.arg
    /\ last.op \in {"remove_disc_number", "remove_total_discs"} =>
           /\ RiffTag_disc_number(data) = None
           /\ RiffTag_total_discs(data) = None

\* set_total_discs(65536) was called and disc_number() returns it
C9_Witness ==
    /\ last.op = "set_total_discs"
    /\ last.arg = Some(u32(1, 0))
    /\ RiffTag_disc_number(data) = Some(u32(1, 0))

\* C4 as stated: an adapter A is converted to a Normalized Tag T1, T1 into a
\* new MP4 adapter B, and B to T2; T2 equals T1 in every field, the album cover
\* included.  (After Mp4Tag::from the tag is B and the call record holds T1.)
C4_RoundTrip ==
    last.op = "Mp4Tag::from" => AnyTag_from_Mp4Tag(mp4, zeroAbsent) = last.arg[1]

\* C7: the process is aborted only by set_album_cover with a MIME type other
\* than Png and Jpeg, and never by set_album_cover with Png or Jpeg; artwork of
\* another encoding reads as None through album_cover() and as the NotAPicture
\* error through the Picture conversion.
C7_PanicOnlyOnUnsupportedCover ==
    /\ panicked =>
           /\ last.op = "set_album_cover"
           /\ last.arg[1].mime_type \notin {"Png", "Jpeg"}
    /\ last.op = "set_album_cover" /\ last.arg[1].mime_type \in {"Png", "Jpeg"}
           => ~panicked
    /\ (/\ last.op = "album_cover"
        /\ mp4.artwork /= <<>>
        /\ mp4.artwork[1].kind \notin {"Png", "Jpeg"})
           => last.ret = None
    /\ last.op = "Picture::try_from" /\ last.arg[1].kind \notin {"Png", "Jpeg"}
           => last.ret = Some([ok |-> FALSE, val |-> "NotAPicture"])

\* set_album_cover was given a Tiff picture and the process is aborted
C7_Witness ==
    /\ panicked
    /\ last.op = "set_album_cover"
    /\ last.arg[1].mime_type = "Tiff"

\* C8: artists() and album_artists() are None exactly when the tag holds no
\* entry of the field (a new tag, after remove_artist / remove_album_artists),
\* and otherwise Some of the entries in order; never Some of an empty sequence.
C8_NoEmptyArtists ==
    /\ Mp4Tag_artists(mp4) /= Some(<<>>)
    /\ Mp4Tag_album_artists(mp4) /= Some(<<>>)
    /\ Mp4Tag_artists(mp4) = None <=> Len(mp4.artists) = 0
    /\ Mp4Tag_album_artists(mp4) = None <=> Len(mp4.album_artists) = 0
    /\ Len(mp4.artists) > 0 => Mp4Tag_artists(mp4) = Some(mp4.artists)
    /\ Len(mp4.album_artists) > 0
           => Mp4Tag_album_artists(mp4) = Some(mp4.album_artists)
    /\ last.op \in {"new", "remove_artist"} => Mp4Tag_artists(mp4) = None
    /\ last.op \in {"new", "remove_album_artists"}
           => Mp4Tag_album_artists(mp4) = None
    /\ last.op = "artists" => last.ret = Mp4Tag_artists(mp4)
    /\ last.op = "album_artists" => last.ret = Mp4Tag_album_artists(mp4)

\* artists() returned None on a tag that holds album artists but no artist
C8_Witness ==
    /\ last.op = "artists"
    /\ last.ret = None
    /\ IsSome(Mp4Tag_album_artists(mp4))

\* the getter of the field a numeric MP4 setter is about
Mp4NumericSetters ==
    {"set_track_number", "set_total_tracks", "set_disc_number", "set_total_discs"}
Mp4GetterAfter(op) ==
    CASE op = "set_track_number" -> Mp4Tag_track_number(mp4, zeroAbsent)
      [] op = "set_total_tracks" -> Mp4Tag_total_tracks(mp4, zeroAbsent)
      [] op = "set_disc_number" -> Mp4Tag_disc_number(mp4, zeroAbsent)
      [] op = "set_total_discs" -> Mp4Tag_total_discs(mp4, zeroAbsent)

\* n mod 2^16 of a u32, as a u32
Mod65536(n) == u32(0, (n.hi * U16Mod + n.lo) % U16Mod)

====
